---- MODULE Spec2Model ----
(***************************************************************************)
(* A model of the auto-flow repository's core: the workflow graph executor *)
(* (WorkflowExecutionEngine), the recorded-action executor                 *)
(* (WorkflowExecutor), the scheduler with retry                            *)
(* (AdvancedSchedulingService) and the recorder's controller/surface       *)
(* message protocol (MacroRecorder).  Each subsystem has its own variables *)
(* and its own specification; a subsystem's actions leave the variables of *)
(* the others unchanged.                                                   *)
(***************************************************************************)
EXTENDS Integers, Sequences, FiniteSets, TLC

(***************************************************************************)
(* Bounds of the model.                                                    *)
(***************************************************************************)
\* executeWorkflow calls made in sequence on one WorkflowExecutionEngine
MaxRuns == 2
\* executeNode invocations followed within one run (a cyclic graph never stops)
MaxExec == 6

(***************************************************************************)
(* WorkflowExecutionEngine: graphs                                         *)
(***************************************************************************)
NodeIds == {"T", "A", "B", "C", "D"}

\* WorkflowNode: commands = TRUE when config.commands / config.command is set
Node(i, t, s, c) == [id |-> i, type |-> t, service |-> s, commands |-> c]

NoConn == [n \in NodeIds |-> << >>]

\* WorkflowTemplate: nodes in array order, node.connections per node id
Workflows ==
  [ linear   |-> [nodes |-> << Node("T", "trigger", "manual", FALSE),
                               Node("A", "action", "terminal", TRUE) >>,
                  conn  |-> [NoConn EXCEPT !["T"] = <<"A">>]],
    diamond  |-> [nodes |-> << Node("T", "trigger", "manual", FALSE),
                               Node("A", "action", "none", FALSE),
                               Node("B", "action", "none", FALSE),
                               Node("D", "action", "terminal", TRUE) >>,
                  conn  |-> [NoConn EXCEPT !["T"] = <<"A", "B">>,
                                           !["A"] = <<"D">>,
                                           !["B"] = <<"D">>]],
    cycle    |-> [nodes |-> << Node("T", "trigger", "manual", FALSE),
                               Node("A", "action", "terminal", TRUE) >>,
                  conn  |-> [NoConn EXCEPT !["T"] = <<"A">>,
                                           !["A"] = <<"T">>]],
    failAC   |-> [nodes |-> << Node("T", "trigger", "manual", FALSE),
                               Node("A", "action", "terminal", FALSE),
                               Node("B", "action", "terminal", TRUE),
                               Node("C", "action", "terminal", TRUE) >>,
                  conn  |-> [NoConn EXCEPT !["T"] = <<"A", "C">>,
                                           !["A"] = <<"B">>]],
    failCA   |-> [nodes |-> << Node("T", "trigger", "manual", FALSE),
                               Node("A", "action", "terminal", FALSE),
                               Node("B", "action", "terminal", TRUE),
                               Node("C", "action", "terminal", TRUE) >>,
                  conn  |-> [NoConn EXCEPT !["T"] = <<"C", "A">>,
                                           !["A"] = <<"B">>]],
    okAC     |-> [nodes |-> << Node("T", "trigger", "manual", FALSE),
                               Node("A", "action", "terminal", TRUE),
                               Node("B", "action", "terminal", TRUE),
                               Node("C", "action", "terminal", TRUE) >>,
                  conn  |-> [NoConn EXCEPT !["T"] = <<"A", "C">>,
                                           !["A"] = <<"B">>]],
    dangling |-> [nodes |-> << Node("T", "trigger", "manual", FALSE),
                               Node("A", "action", "none", FALSE) >>,
                  conn  |-> [NoConn EXCEPT !["T"] = <<"D", "A">>]],
    noTrigger |-> [nodes |-> << Node("A", "action", "none", FALSE) >>,
                   conn  |-> NoConn] ]

WorkflowNames == DOMAIN Workflows

\* workflow.nodes.find(pred): the first node of the array satisfying pred, or
\* the record NoNode when there is none (undefined)
NoNode == Node("none", "none", "none", FALSE)

\* Array.prototype.find: the first element whose index is in I, or NoNode
FirstAt(nodes, I) ==
  IF I = {} THEN NoNode
  ELSE nodes[CHOOSE i \in I : \A j \in I : i <= j]

\* a search that takes the first node whatever its type
FindTriggerAnyType(wf) == FirstAt(wf.nodes, 1..Len(wf.nodes))

FindTrigger(wf) ==
  FirstAt(wf.nodes, { i \in 1..Len(wf.nodes) : wf.nodes[i].type = "trigger" })

FindNode(wf, nid) ==
  FirstAt(wf.nodes, { i \in 1..Len(wf.nodes) : wf.nodes[i].id = nid })

\* initializeServices: the distinct services the nodes reference
ServicesUsed(wf) == { wf.nodes[i].service : i \in 1..Len(wf.nodes) } \ {"none"}

(***************************************************************************)
(* WorkflowExecutionEngine: state                                          *)
(***************************************************************************)
VARIABLES
  context,            \* this.context: [variables, results, logs], set by the constructor
  nodeExecutionTimes, \* this.nodeExecutionTimes: the node ids that have an entry
  runNo,              \* executeWorkflow calls made so far on the instance
  status,             \* per call: "idle", "running", "resolved", "rejected"
  wfOf,               \* per call: the workflow argument
  stack,              \* the executeNode frames of the running call: [node, idx]
  exc,                \* the error being thrown up the frames: origin node id or "none"
  execs,              \* executeNode invocations of the running call
  progress,           \* per call: the <<nodeId, status>> pairs given to onProgress
  thrown,             \* per call: origin of the error the call rejected with
  ctxAtStart,         \* per call: this.context as the call found it
  revisits            \* per call: connections followed to a node already visited

engineVars == << context, nodeExecutionTimes, runNo, status, wfOf, stack, exc,
                 execs, progress, thrown, ctxAtStart, revisits >>

\* AdvancedSchedulingService
VARIABLES
  schedules,     \* this.schedules: id -> [enabled, schedule, retryPolicy]
  executions,    \* this.executions in creation order: ScheduleExecution records
  retryTimers,   \* pending setTimeout callbacks of scheduleRetry
  ticks,         \* the checkScheduledTasks invocations: [state, pos, awaiting, now]
  ticksFired,    \* checkScheduledTasks invocations started
  clock,         \* Date.now(), in ms since the service was constructed
  retryLog,      \* the retries scheduleRetry has announced (its console.log line)
  toggles,       \* enableSchedule / disableSchedule calls made so far
  isRunning      \* this.isRunning

schedVars == << schedules, executions, retryTimers, ticks, ticksFired, clock,
                retryLog, toggles, isRunning >>

\* WorkflowExecutor (the singleton of getInstance)
VARIABLES
  executionLogs,     \* this.executionLogs: ExecutionLog records, in push order
  currentExecution,  \* this.currentExecution: an index of executionLogs, 0 for null
  calls              \* per executeWorkflow call (one per log): [pc, started, stoppedAt]

executorVars == << executionLogs, currentExecution, calls >>

\* MacroRecorder: the injected recorder (recording surface) and the controller
VARIABLES
  relation,      \* the window the injected script runs in: "none" before any
                 \* run, "popup" (opened by the controller) or "self" (the
                 \* controller's own window)
  surfActive,    \* window.macroRecorderActive
  surfActions,   \* window.macroRecorderActions
  surfStart,     \* window.macroRecorderStartTime, -1 when deleted
  surfSessions,  \* runs of the injected script so far
  surfUI,        \* the element #macro-recorder-ui is on the page
  surfListeners, \* sets of handleClick/handleInput/handleKeyPress on document
  reattach,      \* history: [done, kept] of the last re-injection of the session
  lastAdded,     \* history: actions appended by the last event, -1 before one
  surfStopped,   \* history: [done, handed] of the last stopRecording
  channel,       \* messages posted to the controller's window, not yet handled
  ctlActions,    \* the controller's `actions` state
  ctlRecording,  \* the controller's `isRecording` state
  rclock         \* Date.now() in the surface's window, in ms

surfaceVars == << relation, surfActive, surfActions, surfStart, surfSessions,
                  surfUI, surfListeners, reattach, lastAdded, surfStopped >>

\* the controller's recording of its own page (startRecording / stopRecording)
VARIABLES
  ctlStartTime,     \* the controller's `startTime` state, -1 for null
  actionIdCounter,  \* actionIdCounter.current
  pageListeners,    \* listener sets on the controller's document; each holds
                    \* the isRecording and startTime its closures captured
  macroListeners,   \* window.macroListeners is set (to the last set attached)
  pageEvents,       \* history: qualifying events during the current session
  pageAdded,        \* history: actions addAction appended during the session
  escapePressed     \* history: Escape was pressed during the current session

pageVars == << ctlStartTime, actionIdCounter, pageListeners, macroListeners,
               pageEvents, pageAdded, escapePressed >>

recorderVars == << surfaceVars, channel, ctlActions, ctlRecording, rclock, pageVars >>

\* MacroRecorder.js: the standalone recorder script
VARIABLES
  isRecording,      \* let isRecording
  recordedActions,  \* let recordedActions
  jsListening,      \* recordAction is attached to window
  jsSaved,          \* the data last given to saveData (localStorage)
  jsKept            \* history: the buffer as the last start() made while
                    \* recording found it

jsVars == << isRecording, recordedActions, jsListening, jsSaved, jsKept >>

\* AdvancedSchedulingService.handleWebhookRequest: one call
VARIABLES
  webhook,     \* this.webhooks.get(webhookId): [registered, enabled, conditions]
  payload,     \* the payload argument: field -> value
  hookResult   \* [done, started, success]: the call has returned, it reached
               \* simulateWorkflowExecution, the success flag it returned

webhookVars == << webhook, payload, hookResult >>

\* the calls of functions that keep no state between calls
\* AdvancedSchedulingService.emitEvent: the registered event triggers in Map
\* insertion order, the emitted event, the loop position and the call's outcome.
VARIABLES eventTriggers, event, emitPos, emitResult

eventVars == << eventTriggers, event, emitPos, emitResult >>

\* WorkflowExecutionEngine.executeCondition: node.config.condition as a token
\* string, context.variables.gmailMessages?.length || 0, and the stored
\* variables["<nodeId>_result"].
VARIABLES nodeCondition, emailCount, conditionResult

conditionVars == << nodeCondition, emailCount, conditionResult >>

\* generateSelector: the DOM element handed to it and the selector returned.
VARIABLES element, selector

selectorVars == << element, selector >>

\* MacroRecorder.generateScript: the component's actions and startTime state,
\* Date.now() in seconds, window.location.href, and the script texts produced
\* by the calls made so far (each with the location it was produced at).
VARIABLES actions, startTime, dateNow, href, scripts

scriptVars == << actions, startTime, dateNow, href, scripts >>

\* WorkflowBuilder: the workflow being edited (its nodes, each with its own
\* connections array, and the explicit connections list) and the number of
\* nodes created so far, from which the next node id is made.
VARIABLES workflow, nodesCreated

builderVars == << workflow, nodesCreated >>

callVars ==
  << webhookVars, eventVars, conditionVars, selectorVars, scriptVars, builderVars >>

vars == << engineVars, schedVars, executorVars, recorderVars, jsVars, callVars >>

\* what the actions of one subsystem leave unchanged
notEngine == << schedVars, executorVars, recorderVars, jsVars, callVars >>
notScheduler == << engineVars, executorVars, recorderVars, jsVars, callVars >>
notExecutor == << engineVars, schedVars, recorderVars, jsVars, callVars >>
notRecorder == << engineVars, schedVars, executorVars, jsVars, callVars >>
notJs == << engineVars, schedVars, executorVars, recorderVars, callVars >>
notCalls == << engineVars, schedVars, executorVars, recorderVars, jsVars >>
notWebhook ==
  << notCalls, eventVars, conditionVars, selectorVars, scriptVars, builderVars >>
notEvents ==
  << notCalls, webhookVars, conditionVars, selectorVars, scriptVars, builderVars >>
notCondition ==
  << notCalls, webhookVars, eventVars, selectorVars, scriptVars, builderVars >>
notSelector ==
  << notCalls, webhookVars, eventVars, conditionVars, scriptVars, builderVars >>
notScript ==
  << notCalls, webhookVars, eventVars, conditionVars, selectorVars, builderVars >>
notBuilder ==
  << notCalls, webhookVars, eventVars, conditionVars, selectorVars, scriptVars >>

Runs == 1..MaxRuns

NoMetrics == [set |-> FALSE, totalNodes |-> 0, completedNodes |-> 0, failedNodes |-> 0]

\* constructor: variables {}, results {}, logs []
EmptyContext ==
  [ variables |-> [executionMetrics |-> NoMetrics],
    results   |-> [n \in NodeIds |-> 0],
    logs      |-> << >> ]

\* log(level, nodeId, message): the entry pushed on context.logs; `run` stands
\* for the entry's timestamp, which places it in one executeWorkflow call
LogEntry(level, nodeId, message, r) ==
  [level |-> level, nodeId |-> nodeId, message |-> message, run |-> r]

\* calculateMetrics
CalculateMetrics(wf, times) ==
  [ set            |-> TRUE,
    totalNodes     |-> Len(wf.nodes),
    completedNodes |-> Cardinality(times),
    failedNodes    |-> Len(wf.nodes) - Cardinality(times) ]

\* executeTerminalAction: throws 'No commands specified for terminal action'
NodeThrows(node) ==
  node.type = "action" /\ node.service = "terminal" /\ ~node.commands

\* executeTerminalAction: stores context.results[node.id]
NodeStoresResult(node) ==
  node.type = "action" /\ node.service = "terminal" /\ node.commands

\* the body's own log line (executeTrigger / executeAction / executeTerminalAction)
BodyMessage(node) ==
  IF node.type = "trigger"
    THEN (IF node.service = "manual" THEN "Manual trigger activated"
                                     ELSE "Generic trigger executed")
    ELSE (IF node.service = "terminal" THEN "Executed commands"
                                       ELSE "Generic action executed")

\* a catch block that logs the error and does not throw it on
RethrowSwallowed(e) == "none"

\* executeNode's catch block ends with `throw error`: the same error goes on
Rethrow(e) == e

InitEngine ==
  /\ context = EmptyContext
  /\ nodeExecutionTimes = {}
  /\ runNo = 0
  /\ status = [r \in Runs |-> "idle"]
  /\ wfOf = [r \in Runs |-> "none"]
  /\ stack = << >>
  /\ exc = "none"
  /\ execs = 0
  /\ progress = [r \in Runs |-> << >>]
  /\ thrown = [r \in Runs |-> "none"]
  /\ ctxAtStart = [r \in Runs |-> EmptyContext]
  /\ revisits = [r \in Runs |-> 0]

Top == stack[Len(stack)]

\* the <<nodeId, status>> pairs of call r with the given status
Reported(r, n, st) == { i \in 1..Len(progress[r]) : progress[r][i] = <<n, st>> }

\* executeNode has been entered for node n in call r
Visited(r, n) == Reported(r, n, "running") # {}
Pop == SubSeq(stack, 1, Len(stack) - 1)
CurWf == Workflows[wfOf[runNo]]

\* executeWorkflow up to the call of executeNode(triggerNode): start log,
\* initializeServices, the search for the trigger; a graph with no trigger
\* throws inside the try block, is logged and rejects the call
StartWorkflow(w) ==
  /\ UNCHANGED notEngine
  /\ runNo < MaxRuns
  /\ IF runNo = 0 THEN TRUE ELSE status[runNo] \in {"resolved", "rejected"}
  /\ LET r    == runNo + 1
         wf   == Workflows[w]
         l1   == Append(context.logs,
                        LogEntry("info", "workflow-start", "Starting workflow", r))
         l2   == IF "terminal" \in ServicesUsed(wf)
                   THEN Append(l1, LogEntry("info", "service-init",
                                            "Terminal service initialized", r))
                   ELSE l1
         trig == FindTrigger(wf)
     IN /\ runNo' = r
        /\ wfOf' = [wfOf EXCEPT ![r] = w]
        /\ ctxAtStart' = [ctxAtStart EXCEPT ![r] = context]
        /\ execs' = 0
        /\ exc' = "none"
        /\ IF trig = NoNode
             THEN /\ context' = [context EXCEPT !.logs =
                       Append(l2, LogEntry("error", "workflow-error",
                                           "Workflow failed", r))]
                  /\ status' = [status EXCEPT ![r] = "rejected"]
                  /\ thrown' = [thrown EXCEPT ![r] = "validation"]
                  /\ stack' = << >>
             ELSE /\ context' = [context EXCEPT !.logs = l2]
                  /\ status' = [status EXCEPT ![r] = "running"]
                  /\ thrown' = thrown
                  /\ stack' = << [node |-> trig.id, idx |-> 0] >>
  /\ UNCHANGED << nodeExecutionTimes, progress, revisits >>

\* executeNode from its first line to the end of the switch: the node's body
\* completes (success log, onProgress 'completed') or throws (catch block:
\* error log with the node id, onProgress 'error', throw)
ExecuteNode ==
  /\ UNCHANGED notEngine
  /\ runNo > 0 /\ status[runNo] = "running"
  /\ stack # << >> /\ Top.idx = 0 /\ exc = "none"
  /\ execs < MaxExec
  /\ LET r    == runNo
         node == FindNode(CurWf, Top.node)
         l1   == Append(context.logs,
                        LogEntry("info", node.id, "Executing node", r))
     IN /\ execs' = execs + 1
        /\ nodeExecutionTimes' = nodeExecutionTimes \cup {node.id}
        /\ IF NodeThrows(node)
             THEN /\ context' = [context EXCEPT !.logs =
                       Append(l1, LogEntry("error", node.id, "Node failed", r))]
                  /\ progress' = [progress EXCEPT ![r] =
                       @ \o << <<node.id, "running">>, <<node.id, "error">> >>]
                  /\ exc' = Rethrow(node.id)
                  /\ stack' = Pop
             ELSE /\ context' =
                       [context EXCEPT
                          !.logs = l1 \o
                            << LogEntry("info", node.id, BodyMessage(node), r),
                               LogEntry("success", node.id, "Node completed", r) >>,
                          !.results = IF NodeStoresResult(node)
                                        THEN [@ EXCEPT ![node.id] = r] ELSE @]
                  /\ progress' = [progress EXCEPT ![r] =
                       @ \o << <<node.id, "running">>, <<node.id, "completed">> >>]
                  /\ exc' = "none"
                  /\ stack' = [stack EXCEPT ![Len(stack)].idx = 1]
  /\ UNCHANGED << runNo, status, wfOf, thrown, ctxAtStart, revisits >>

\* one iteration of `for (const connectionId of node.connections)`: the
\* connected node is looked up and, when found, executeNode is called on it
FollowConnection ==
  /\ UNCHANGED notEngine
  /\ runNo > 0 /\ status[runNo] = "running"
  /\ stack # << >> /\ Top.idx >= 1 /\ exc = "none"
  /\ Top.idx <= Len(CurWf.conn[Top.node])
  /\ LET connectedNode == FindNode(CurWf, CurWf.conn[Top.node][Top.idx])
         advanced      == [stack EXCEPT ![Len(stack)].idx = @ + 1]
     IN /\ stack' = IF connectedNode = NoNode
                        THEN advanced
                        ELSE Append(advanced, [node |-> connectedNode.id, idx |-> 0])
        /\ revisits' = IF Visited(runNo, connectedNode.id)
                          THEN [revisits EXCEPT ![runNo] = @ + 1]
                          ELSE revisits
  /\ UNCHANGED << context, nodeExecutionTimes, runNo, status, wfOf, exc, execs,
                  progress, thrown, ctxAtStart >>

\* the loop over the connections is over: executeNode returns to its caller
ReturnFromNode ==
  /\ UNCHANGED notEngine
  /\ runNo > 0 /\ status[runNo] = "running"
  /\ Len(stack) > 1 /\ Top.idx > Len(CurWf.conn[Top.node]) /\ exc = "none"
  /\ stack' = Pop
  /\ UNCHANGED << context, nodeExecutionTimes, runNo, status, wfOf, exc, execs,
                  progress, thrown, ctxAtStart, revisits >>

\* executeNode(triggerNode) returned: completion log, metrics, return this.context
CompleteWorkflow ==
  /\ UNCHANGED notEngine
  /\ runNo > 0 /\ status[runNo] = "running"
  /\ Len(stack) = 1 /\ Top.idx > Len(CurWf.conn[Top.node]) /\ exc = "none"
  /\ stack' = << >>
  /\ context' =
       [context EXCEPT
          !.logs = Append(@, LogEntry("success", "workflow-complete",
                                      "Workflow completed successfully", runNo)),
          !.variables = [@ EXCEPT !.executionMetrics =
                           CalculateMetrics(CurWf, nodeExecutionTimes)]]
  /\ status' = [status EXCEPT ![runNo] = "resolved"]
  /\ UNCHANGED << nodeExecutionTimes, runNo, wfOf, exc, execs, progress, thrown,
                  ctxAtStart, revisits >>

\* a caller's `await this.executeNode(connectedNode, ...)` throws: the caller's
\* own catch block logs the error under the caller's id, reports 'error' and
\* throws it on
UnwindNode ==
  /\ UNCHANGED notEngine
  /\ runNo > 0 /\ status[runNo] = "running"
  /\ stack # << >> /\ exc # "none"
  /\ context' = [context EXCEPT !.logs =
                   Append(@, LogEntry("error", Top.node, "Node failed", runNo))]
  /\ progress' = [progress EXCEPT ![runNo] = Append(@, <<Top.node, "error">>)]
  /\ nodeExecutionTimes' = nodeExecutionTimes \cup {Top.node}
  /\ exc' = Rethrow(exc)
  /\ stack' = Pop
  /\ UNCHANGED << runNo, status, wfOf, execs, thrown, ctxAtStart, revisits >>

\* executeWorkflow's catch block: log 'workflow-error', throw error
FailWorkflow ==
  /\ UNCHANGED notEngine
  /\ runNo > 0 /\ status[runNo] = "running"
  /\ stack = << >> /\ exc # "none"
  /\ context' = [context EXCEPT !.logs =
                   Append(@, LogEntry("error", "workflow-error",
                                      "Workflow failed", runNo))]
  /\ status' = [status EXCEPT ![runNo] = "rejected"]
  /\ thrown' = [thrown EXCEPT ![runNo] = exc]
  /\ exc' = "none"
  /\ UNCHANGED << nodeExecutionTimes, runNo, wfOf, stack, execs, progress,
                  ctxAtStart, revisits >>

NextEngine ==
  \/ \E w \in WorkflowNames : StartWorkflow(w)
  \/ ExecuteNode
  \/ FollowConnection
  \/ ReturnFromNode
  \/ CompleteWorkflow
  \/ UnwindNode
  \/ FailWorkflow


(***************************************************************************)
(* AdvancedSchedulingService: schedules, executions, polling tick, retry   *)
(***************************************************************************)
\* invocations of checkScheduledTasks (the initial check and the interval's)
MaxTicks == 2
\* ScheduleExecution records created (a failing schedule is retried without end)
MaxExecutions == 4

\* enableSchedule / disableSchedule calls made
MaxToggles == 1

\* setInterval(..., 60000): the period of the polling tick, in ms
TickMs == 60000
\* the factor 1000 of scheduleRetry's delay, in ms
RetryBaseMs == 1000

\* this.schedules, a Map: its keys in insertion order
SchedOrder == << "S1", "S2" >>
SchedIds == { SchedOrder[i] : i \in 1..Len(SchedOrder) }

NoPolicy == [maxAttempts |-> 0, backoffMultiplier |-> 0, maxDelay |-> 0, set |-> FALSE]
Policy(a, m, d) == [maxAttempts |-> a, backoffMultiplier |-> m, maxDelay |-> d, set |-> TRUE]

\* ScheduleConfig.retryPolicy values of the model (absent, the spec's example,
\* and one whose maxDelay clamps the second delay)
Policies == { NoPolicy, Policy(3, 2, 10000), Policy(1, 3, 2000) }

\* ScheduleConfig.schedule of the two interval schedules
ScheduleString == [S1 |-> "1m", S2 |-> "2m"]

\* parseInterval on the strings of the model; anything else gives 60000
ParseInterval(str) ==
  IF str = "1m" THEN 1 * 60 * 1000
  ELSE IF str = "2m" THEN 2 * 60 * 1000
  ELSE 60000

RECURSIVE Pow(_, _)
\* Math.pow on non-negative integers
Pow(b, n) == IF n = 0 THEN 1 ELSE b * Pow(b, n - 1)

Min(a, b) == IF a <= b THEN a ELSE b

\* scheduleRetry: Math.min(maxDelay, 1000 * Math.pow(backoffMultiplier, retryCount - 1))
RetryDelay(policy, retryCount) ==
  Min(policy.maxDelay, RetryBaseMs * Pow(policy.backoffMultiplier, retryCount - 1))

\* the retry timer's callback runs executeScheduledWorkflow(schedule), whose new
\* ScheduleExecution record starts with retryCount: 0
NewRetryCount(failed) == 0

TickIds == 1..MaxTicks

IdleTick == [state |-> "unused", pos |-> 0, awaiting |-> 0, now |-> 0]

InitScheduler ==
  /\ \E pol \in [SchedIds -> Policies], en \in [SchedIds -> BOOLEAN] :
       schedules = [sid \in SchedIds |->
                      [enabled |-> en[sid], schedule |-> ScheduleString[sid],
                       retryPolicy |-> pol[sid]]]
  /\ executions = << >>
  /\ retryTimers = {}
  /\ ticks = [t \in TickIds |-> IdleTick]
  /\ ticksFired = 0
  /\ clock = 0
  /\ retryLog = << >>
  /\ toggles = 0
  /\ isRunning = TRUE

\* evaluateIntervalSchedule: no execution of the schedule yet, or the latest
\* one (by scheduledAt) is at least the interval old
EvaluateIntervalSchedule(sid, now) ==
  LET own == { i \in 1..Len(executions) : executions[i].scheduleId = sid }
  IN IF own = {} THEN TRUE
     ELSE LET last == CHOOSE i \in own :
                        \A j \in own : executions[j].scheduledAt <= executions[i].scheduledAt
          IN now - executions[last].scheduledAt >= ParseInterval(schedules[sid].schedule)

\* shouldExecuteSchedule, for the interval schedules of the model
ShouldExecuteSchedule(sid, now) == EvaluateIntervalSchedule(sid, now)

\* the test of checkScheduledTasks' loop body on one schedule
DueAt(j, now) ==
  schedules[SchedOrder[j]].enabled /\ ShouldExecuteSchedule(SchedOrder[j], now)

\* the loop of checkScheduledTasks from position p: the first schedule that is
\* enabled and due, or Len(SchedOrder) + 1 when the loop runs to its end
NextDue(p, now) ==
  LET due == { j \in p..Len(SchedOrder) : DueAt(j, now) }
  IN IF due = {} THEN Len(SchedOrder) + 1
     ELSE CHOOSE j \in due : \A k \in due : j <= k

\* executeScheduledWorkflow up to `await this.simulateWorkflowExecution`: the
\* record is created 'scheduled' and set 'running' before anything can observe
\* it.  firing and attempt are history: the execution the chain of retries
\* started from, and the place of this execution in the chain; so are
\* enabledAtCreation and afterShutdown: the schedule's enabled flag and the
\* service's isRunning flag at the moment the record is created.
NewExecution(sid, retryCount, firing, attempt) ==
  [ scheduleId |-> sid, status |-> "running", retryCount |-> retryCount,
    scheduledAt |-> clock, nextRetryDelay |-> 0,
    firing |-> firing, attempt |-> attempt,
    enabledAtCreation |-> schedules[sid].enabled,
    afterShutdown |-> ~isRunning ]

\* the loop of checkScheduledTasks runs from position p up to its next await
\* (`await this.executeScheduledWorkflow(schedule)`) or to its end
RunTickFrom(t, p, now) ==
  LET j == NextDue(p, now)
      e == Len(executions) + 1
  IN IF j > Len(SchedOrder)
       THEN /\ ticks' = [ticks EXCEPT ![t] =
                           [state |-> "done", pos |-> j, awaiting |-> 0, now |-> now]]
            /\ executions' = executions
       ELSE /\ Len(executions) < MaxExecutions
            /\ ticks' = [ticks EXCEPT ![t] =
                           [state |-> "active", pos |-> j, awaiting |-> e, now |-> now]]
            /\ executions' = Append(executions, NewExecution(SchedOrder[j], 0, e, 1))

\* startSchedulerTick: the initial check, then one check per interval period
TickFire ==
  /\ UNCHANGED notScheduler
  /\ UNCHANGED isRunning
  /\ isRunning
  /\ ticksFired < MaxTicks
  /\ LET t   == ticksFired + 1
         now == IF ticksFired = 0 THEN clock ELSE clock + TickMs
     IN /\ clock' = now
        /\ ticksFired' = t
        /\ RunTickFrom(t, 1, now)
  /\ UNCHANGED << schedules, retryTimers, retryLog, toggles >>

\* the awaited executeScheduledWorkflow has returned: the loop goes on
TickResume(t) ==
  /\ UNCHANGED notScheduler
  /\ UNCHANGED isRunning
  /\ ticks[t].state = "active"
  /\ executions[ticks[t].awaiting].status # "running"
  /\ RunTickFrom(t, ticks[t].pos + 1, ticks[t].now)
  /\ UNCHANGED << schedules, retryTimers, ticksFired, clock, retryLog, toggles >>

\* simulateWorkflowExecution resolves: the execution is 'completed'
ExecutionSucceeds(e) ==
  /\ UNCHANGED notScheduler
  /\ UNCHANGED isRunning
  /\ e \in 1..Len(executions)
  /\ executions[e].status = "running"
  /\ executions' = [executions EXCEPT ![e].status = "completed"]
  /\ UNCHANGED << schedules, retryTimers, ticks, ticksFired, clock, retryLog, toggles >>

\* simulateWorkflowExecution throws: the catch block sets 'failed' and, with a
\* retryPolicy and retryCount < maxAttempts, runs scheduleRetry: retryCount++,
\* the delay, status back to 'scheduled', one setTimeout
ExecutionFails(e) ==
  /\ UNCHANGED notScheduler
  /\ UNCHANGED isRunning
  /\ e \in 1..Len(executions)
  /\ executions[e].status = "running"
  /\ LET x      == executions[e]
         policy == schedules[x.scheduleId].retryPolicy
         count  == x.retryCount + 1
         delay  == RetryDelay(policy, count)
     IN IF policy.set /\ x.retryCount < policy.maxAttempts
          THEN /\ executions' = [executions EXCEPT ![e] =
                    [x EXCEPT !.retryCount = count, !.status = "scheduled",
                              !.nextRetryDelay = delay]]
               /\ retryTimers' = retryTimers \cup
                    { [execution |-> e, scheduleId |-> x.scheduleId, delay |-> delay] }
               /\ retryLog' = Append(retryLog,
                    [execution |-> e, firing |-> x.firing, failure |-> x.attempt,
                     retryCount |-> count, delay |-> delay])
          ELSE /\ executions' = [executions EXCEPT ![e].status = "failed"]
               /\ UNCHANGED << retryTimers, retryLog >>
  /\ UNCHANGED << schedules, ticks, ticksFired, clock, toggles >>

\* the setTimeout callback of scheduleRetry: this.schedules.get(scheduleId) and,
\* when it exists, executeScheduledWorkflow(schedule)
RetryTimerFires(tm) ==
  /\ UNCHANGED notScheduler
  /\ UNCHANGED isRunning
  /\ tm \in retryTimers
  /\ Len(executions) < MaxExecutions
  /\ retryTimers' = retryTimers \ {tm}
  /\ LET failed == executions[tm.execution]
     IN executions' = Append(executions,
          NewExecution(tm.scheduleId, NewRetryCount(failed), failed.firing,
                       failed.attempt + 1))
  /\ UNCHANGED << schedules, ticks, ticksFired, clock, retryLog, toggles >>

\* enableSchedule(id)
EnableSchedule(sid) ==
  /\ UNCHANGED notScheduler
  /\ UNCHANGED isRunning
  /\ toggles < MaxToggles
  /\ ~schedules[sid].enabled
  /\ toggles' = toggles + 1
  /\ schedules' = [schedules EXCEPT ![sid].enabled = TRUE]
  /\ UNCHANGED << executions, retryTimers, ticks, ticksFired, clock, retryLog >>

\* disableSchedule(id)
DisableSchedule(sid) ==
  /\ UNCHANGED notScheduler
  /\ UNCHANGED isRunning
  /\ toggles < MaxToggles
  /\ schedules[sid].enabled
  /\ toggles' = toggles + 1
  /\ schedules' = [schedules EXCEPT ![sid].enabled = FALSE]
  /\ UNCHANGED << executions, retryTimers, ticks, ticksFired, clock, retryLog >>

\* shutdown: isRunning is cleared and the timers of this.timers are cancelled;
\* the setTimeout handles of scheduleRetry are not kept in that map
Shutdown ==
  /\ UNCHANGED notScheduler
  /\ isRunning
  /\ isRunning' = FALSE
  /\ UNCHANGED << schedules, executions, retryTimers, ticks, ticksFired, clock,
                  retryLog, toggles >>

NextScheduler ==
  \/ TickFire
  \/ \E t \in TickIds : TickResume(t)
  \/ \E e \in 1..MaxExecutions : ExecutionSucceeds(e)
  \/ \E e \in 1..MaxExecutions : ExecutionFails(e)
  \/ \E tm \in retryTimers : RetryTimerFires(tm)
  \/ \E sid \in SchedIds : EnableSchedule(sid)
  \/ \E sid \in SchedIds : DisableSchedule(sid)
  \/ Shutdown

(***************************************************************************)
(* WorkflowExecutor: replay of a recorded action list                      *)
(***************************************************************************)
\* executeWorkflow calls made on the singleton
MaxCalls == 2
\* length of the action list given to one call
MaxActions == 2

\* a MacroAction as executeAction sees it: "ok" is replayed, "throws" has a
\* selector document.querySelector rejects with a SyntaxError
ActionKinds == { "ok", "throws" }

ActionLists == UNION { [1..n -> ActionKinds] : n \in 0..MaxActions }

NoResult == [set |-> FALSE, success |-> FALSE, message |-> "", executedActions |-> 0]

Result(ok, msg, n) == [set |-> TRUE, success |-> ok, message |-> msg, executedActions |-> n]

StoppedMessage == "Execution stopped by user"

\* the assignments at the end of a successful run (lines 75-77), as the log
\* record they leave
CompletedLog(log, executed) ==
  [log EXCEPT !.status = "completed",
              !.result = Result(TRUE, "Successfully executed actions", executed)]

\* the assignments of the catch block (lines 91-93)
FailedLog(log) ==
  [log EXCEPT !.status = "failed",
              !.result = Result(FALSE, "Workflow execution failed", 0)]

\* the for loop's test: there is a next action whatever the log's status is
LoopContinues(c) == calls[c].started < Len(executionLogs[c].actions)

InitExecutor ==
  /\ executionLogs = << >>
  /\ currentExecution = 0
  /\ calls = << >>

\* one pass of the for loop body from `onProgress` to the 100 ms wait, for the
\* action at position k of call c, or the catch block when executeAction rejects
RunAction(c, k, logs) ==
  IF logs[c].actions[k] = "throws"
    THEN /\ executionLogs' = [logs EXCEPT ![c] = FailedLog(@)]
         /\ currentExecution' = 0
         /\ calls' = [IF c > Len(calls)
                        THEN Append(calls, [pc |-> "returned", started |-> k, stoppedAt |-> -1])
                        ELSE calls EXCEPT ![c].pc = "returned", ![c].started = k]
    ELSE /\ executionLogs' = logs
         /\ currentExecution' = IF c > Len(calls) THEN c ELSE currentExecution
         /\ calls' = [IF c > Len(calls)
                        THEN Append(calls, [pc |-> "waiting", started |-> k, stoppedAt |-> -1])
                        ELSE calls EXCEPT ![c].started = k]

\* executeWorkflow from its first line to its first wait: the log is pushed and
\* made current, and the first action (if any) is executed
ExecutorStart(acts) ==
  /\ UNCHANGED notExecutor
  /\ Len(executionLogs) < MaxCalls
  /\ LET c    == Len(executionLogs) + 1
         logs == Append(executionLogs,
                        [status |-> "running", result |-> NoResult, actions |-> acts])
     IN IF acts = << >>
          THEN /\ executionLogs' = [logs EXCEPT ![c] = CompletedLog(@, 0)]
               /\ currentExecution' = 0
               /\ calls' = Append(calls, [pc |-> "returned", started |-> 0, stoppedAt |-> -1])
          ELSE RunAction(c, 1, logs)

\* the 100 ms wait is over and the list has a further action: it is executed
ExecutorNextAction(c) ==
  /\ UNCHANGED notExecutor
  /\ c \in 1..Len(calls)
  /\ calls[c].pc = "waiting"
  /\ LoopContinues(c)
  /\ RunAction(c, calls[c].started + 1, executionLogs)

\* the 100 ms wait is over and the list is exhausted: lines 67-79
ExecutorComplete(c) ==
  /\ UNCHANGED notExecutor
  /\ c \in 1..Len(calls)
  /\ calls[c].pc = "waiting"
  /\ ~LoopContinues(c)
  /\ executionLogs' = [executionLogs EXCEPT ![c] = CompletedLog(@, calls[c].started)]
  /\ currentExecution' = 0
  /\ calls' = [calls EXCEPT ![c].pc = "returned"]

\* stopCurrentExecution (Dashboard's handleStopExecution)
StopCurrentExecution ==
  /\ UNCHANGED notExecutor
  /\ currentExecution # 0
  /\ executionLogs' = [executionLogs EXCEPT ![currentExecution] =
       [@ EXCEPT !.status = "failed", !.result = Result(FALSE, StoppedMessage, 0)]]
  /\ calls' = [calls EXCEPT ![currentExecution].stoppedAt =
                 calls[currentExecution].started]
  /\ currentExecution' = 0

\* pauseCurrentExecution
PauseCurrentExecution ==
  /\ UNCHANGED notExecutor
  /\ currentExecution # 0
  /\ executionLogs[currentExecution].status # "paused"
  /\ executionLogs' = [executionLogs EXCEPT ![currentExecution].status = "paused"]
  /\ UNCHANGED << currentExecution, calls >>

NextExecutor ==
  \/ \E acts \in ActionLists : ExecutorStart(acts)
  \/ \E c \in 1..MaxCalls : ExecutorNextAction(c)
  \/ \E c \in 1..MaxCalls : ExecutorComplete(c)
  \/ StopCurrentExecution
  \/ PauseCurrentExecution

(***************************************************************************)
(* MacroRecorder: the injected recorder script and the controller's        *)
(* message handler                                                         *)
(***************************************************************************)
\* runs of the injected script (bookmarklet, injection, re-injection)
MaxSessions == 2
\* actions one session's buffer holds
MaxSurfaceActions == 3
\* Date.now() of the surface, in ms after the first injection
MaxClock == 2

EventTypes == { "click", "input" }

\* Date.now() - undefined: the timestamp computed when the start time is deleted
NaN == -1

\* a <= b in JavaScript: false as soon as one side is NaN
Leq(a, b) == a # NaN /\ b # NaN /\ a <= b

\* 'action_' + n is modelled by n
ActionId(n) == n

MacroAction(n, ts, type) == [id |-> ActionId(n), timestamp |-> ts, type |-> type]

ActionMessage(a) == [type |-> "MACRO_ACTION", actions |-> << a >>]

CompleteMessage(as) == [type |-> "MACRO_COMPLETE", actions |-> as]

NoReattach == [done |-> FALSE, kept |-> 0]

NotStopped == [done |-> FALSE, handed |-> << >>]

\* one run of the injected script past its entry guard: the session flag, the
\* buffer and the start time as lines 72-74 leave them, a new UI element and
\* a new set of document listeners
ScriptHead ==
  /\ surfActive' = TRUE
  /\ surfActions' = surfActions
  /\ surfStart' = IF surfStart = -1 THEN rclock ELSE surfStart
  /\ surfSessions' = surfSessions + 1
  /\ surfUI' = TRUE
  /\ surfListeners' = surfListeners + 1
  /\ lastAdded' = -1
  /\ surfStopped' = NotStopped

\* openExternalRecording: the controller resets its list, opens a window and
\* injects the script into it
OpenExternalRecording ==
  /\ UNCHANGED notRecorder
  /\ relation = "none"
  /\ surfSessions < MaxSessions
  /\ relation' = "popup"
  /\ ctlRecording' = TRUE
  /\ ctlStartTime' = rclock
  /\ ctlActions' = << >>
  /\ ScriptHead
  /\ reattach' = NoReattach
  /\ UNCHANGED << channel, rclock, actionIdCounter, pageListeners, macroListeners,
                  pageEvents, pageAdded, escapePressed >>

\* the user runs the bookmarklet in window w: the opened window, or the
\* controller's own page. The entry guard returns when a session is active and
\* its UI is on the page.
RunBookmarklet(w) ==
  /\ UNCHANGED notRecorder
  /\ IF w = "popup" THEN relation = "popup" ELSE relation \in { "none", "self" }
  /\ ~(surfActive /\ surfUI)
  /\ surfSessions < MaxSessions
  /\ relation' = w
  /\ ScriptHead
  /\ reattach' = IF surfActive THEN [done |-> TRUE, kept |-> Len(surfActions)]
                               ELSE NoReattach
  /\ UNCHANGED << channel, ctlActions, ctlRecording, rclock, pageVars >>

\* the page re-renders (a route change of a single-page application): the UI
\* element is gone, the document and its listeners stay
SurfaceUIRemoved ==
  /\ UNCHANGED notRecorder
  /\ surfActive
  /\ surfUI
  /\ surfUI' = FALSE
  /\ UNCHANGED << relation, surfActive, surfActions, surfStart, surfSessions,
                  surfListeners, reattach, lastAdded, surfStopped,
                  channel, ctlActions, ctlRecording, rclock, pageVars >>

\* reinjectRecorder: the session is active and the UI is missing, so the
\* stored script is evaluated again
ReinjectRecorder ==
  /\ UNCHANGED notRecorder
  /\ surfActive
  /\ ~surfUI
  /\ surfSessions < MaxSessions
  /\ ScriptHead
  /\ reattach' = [done |-> TRUE, kept |-> Len(surfActions)]
  /\ UNCHANGED << relation, channel, ctlActions, ctlRecording, rclock, pageVars >>

RECURSIVE AddActions(_, _, _, _)
\* addAction called once by each of k attached handlers for one event: each
\* call numbers its action from the buffer's length at that moment
AddActions(buf, k, ts, type) ==
  IF k = 0 THEN buf
  ELSE AddActions(Append(buf, MacroAction(Len(buf) + 1, ts, type)), k - 1, ts, type)

RECURSIVE ActionMessages(_, _, _)
\* the MACRO_ACTION messages for the entries of buf from position i on
ActionMessages(buf, i, msgs) ==
  IF i > Len(buf) THEN msgs
  ELSE ActionMessages(buf, i + 1, Append(msgs, ActionMessage(buf[i])))

\* a click or input on the surface d ms after the previous step: every
\* attached handler calls the script's addAction.  The action is pushed, then
\* the UI's counter is updated (a TypeError when the UI is missing, which ends
\* the call) and the action is posted to window.parent, which is the
\* controller's window only when the script runs in the controller's own page.
SurfaceEvent(type, d) ==
  /\ UNCHANGED notRecorder
  /\ surfListeners > 0
  /\ Len(surfActions) + surfListeners <= MaxSurfaceActions
  /\ rclock + d <= MaxClock
  /\ rclock' = rclock + d
  /\ LET ts == IF surfStart = -1 THEN NaN ELSE rclock' - surfStart
     IN surfActions' = AddActions(surfActions, surfListeners, ts, type)
  /\ channel' = IF relation = "self" /\ surfUI
                  THEN ActionMessages(surfActions', Len(surfActions) + 1, channel)
                  ELSE channel
  /\ lastAdded' = Len(surfActions') - Len(surfActions)
  /\ UNCHANGED << relation, surfActive, surfStart, surfSessions, surfUI,
                  surfListeners, reattach, surfStopped,
                  ctlActions, ctlRecording, pageVars >>

\* the script's stopRecording (the Stop button of the UI): the handlers of
\* this run of the script are removed, MACRO_COMPLETE goes to window.parent
\* when that is another window and to window.opener when there is one; then
\* the UI is removed and the buffer and the start time are cleared
SurfaceStop ==
  /\ UNCHANGED notRecorder
  /\ surfActive
  /\ surfUI
  /\ surfActive' = FALSE
  /\ surfListeners' = surfListeners - 1
  /\ channel' = IF relation = "popup"
                  THEN Append(channel, CompleteMessage(surfActions))
                  ELSE channel
  /\ surfStopped' = [done |-> TRUE, handed |-> surfActions]
  /\ surfUI' = FALSE
  /\ surfActions' = << >>
  /\ surfStart' = -1
  /\ reattach' = NoReattach
  /\ UNCHANGED << relation, surfSessions, lastAdded,
                  ctlActions, ctlRecording, rclock, pageVars >>

\* the controller's message handler, for the oldest undelivered message
ControllerReceive ==
  /\ UNCHANGED notRecorder
  /\ channel # << >>
  /\ LET m == Head(channel)
     IN /\ ctlActions' = ctlActions \o m.actions
        /\ ctlRecording' = IF m.type = "MACRO_COMPLETE" THEN FALSE ELSE ctlRecording
  /\ channel' = Tail(channel)
  /\ UNCHANGED << surfaceVars, rclock, pageVars >>

\* the controller's clearActions
ClearActions ==
  /\ UNCHANGED notRecorder
  /\ ctlActions # << >>
  /\ ctlActions' = << >>
  /\ UNCHANGED << surfaceVars, channel, ctlRecording, rclock, pageVars >>

(***************************************************************************)
(* MacroRecorder: recording of the controller's own page                   *)
(***************************************************************************)
\* startRecording calls
MaxPageStarts == 2
\* qualifying events dispatched during one session
MaxPageEvents == 3

\* the handlers startRecording creates close over the render they were created
\* in: its isRecording, and its addAction with that isRecording and startTime
ListenerSet == [recording |-> ctlRecording, start |-> ctlStartTime]

RECURSIVE PageAdd(_, _, _, _, _)
\* addAction called by the handler of each listener set from position i on:
\* `if (!isRecording) return` on the captured flag, else an action numbered
\* by generateActionId and stamped Date.now() - (startTime || 0)
PageAdd(i, acts, counter, now, type) ==
  IF i > Len(pageListeners) THEN [actions |-> acts, counter |-> counter]
  ELSE IF ~pageListeners[i].recording THEN PageAdd(i + 1, acts, counter, now, type)
  ELSE LET st == IF pageListeners[i].start = -1 THEN 0 ELSE pageListeners[i].start
       IN PageAdd(i + 1, Append(acts, MacroAction(counter + 1, now - st, type)),
                  counter + 1, now, type)

\* a session recording the controller's page is in progress
PageSession == ctlRecording /\ macroListeners

\* the window opened by openExternalRecording is closed: its script is gone
SurfaceClosed ==
  /\ relation' = "none"
  /\ surfActive' = FALSE
  /\ surfActions' = << >>
  /\ surfStart' = -1
  /\ surfUI' = FALSE
  /\ surfListeners' = 0
  /\ reattach' = NoReattach
  /\ lastAdded' = -1
  /\ surfStopped' = NotStopped
  /\ UNCHANGED surfSessions

\* the body of the controller's stopRecording: the listeners stored in
\* window.macroListeners are removed and the external window is closed
StopRecordingBody ==
  /\ ctlRecording' = FALSE
  /\ pageListeners' = IF macroListeners
                        THEN SubSeq(pageListeners, 1, Len(pageListeners) - 1)
                        ELSE pageListeners
  /\ macroListeners' = FALSE
  /\ IF relation = "popup" THEN SurfaceClosed ELSE UNCHANGED surfaceVars

\* startRecording (the button shows Start while isRecording is false)
StartRecording ==
  /\ UNCHANGED notRecorder
  /\ ~ctlRecording
  /\ Len(pageListeners) < MaxPageStarts
  /\ ctlRecording' = TRUE
  /\ ctlStartTime' = rclock
  /\ ctlActions' = << >>
  /\ pageListeners' = Append(pageListeners, ListenerSet)
  /\ macroListeners' = TRUE
  /\ pageEvents' = 0
  /\ pageAdded' = 0
  /\ escapePressed' = FALSE
  /\ UNCHANGED << surfaceVars, channel, rclock, actionIdCounter >>

\* stopRecording (the button shows Stop while isRecording is true)
StopRecording ==
  /\ UNCHANGED notRecorder
  /\ ctlRecording
  /\ StopRecordingBody
  /\ UNCHANGED << channel, ctlActions, rclock, ctlStartTime, actionIdCounter,
                  pageEvents, pageAdded, escapePressed >>

\* a click or input on the controller's page d ms after the previous step:
\* handleClick / handleInput of every attached listener set
PageEvent(type, d) ==
  /\ UNCHANGED notRecorder
  /\ Len(pageListeners) > 0
  /\ pageEvents < MaxPageEvents
  /\ rclock + d <= MaxClock
  /\ rclock' = rclock + d
  /\ LET r == PageAdd(1, << >>, actionIdCounter, rclock', type)
     IN /\ ctlActions' = ctlActions \o r.actions
        /\ actionIdCounter' = r.counter
        /\ pageAdded' = IF PageSession THEN pageAdded + Len(r.actions) ELSE pageAdded
  /\ pageEvents' = IF PageSession THEN pageEvents + 1 ELSE pageEvents
  /\ UNCHANGED << surfaceVars, channel, ctlRecording, ctlStartTime,
                  pageListeners, macroListeners, escapePressed >>

\* an Escape key-down on the controller's page: handleKeyPress stops the
\* recording when its captured isRecording is true, and hands the key to
\* addAction otherwise
PageEscape ==
  /\ UNCHANGED notRecorder
  /\ Len(pageListeners) > 0
  /\ ~escapePressed
  /\ escapePressed' = PageSession
  /\ IF \E i \in 1..Len(pageListeners) : pageListeners[i].recording
       THEN StopRecordingBody
       ELSE UNCHANGED << surfaceVars, ctlRecording, pageListeners, macroListeners >>
  /\ UNCHANGED << channel, ctlActions, rclock, ctlStartTime, actionIdCounter,
                  pageEvents, pageAdded >>

NextRecorder ==
  \/ OpenExternalRecording
  \/ \E w \in { "popup", "self" } : RunBookmarklet(w)
  \/ SurfaceUIRemoved
  \/ ReinjectRecorder
  \/ \E type \in EventTypes : \E d \in 0..1 : SurfaceEvent(type, d)
  \/ SurfaceStop
  \/ ControllerReceive
  \/ ClearActions
  \/ StopRecording

NextPage ==
  \/ StartRecording
  \/ StopRecording
  \/ \E type \in EventTypes : \E d \in 0..1 : PageEvent(type, d)
  \/ PageEscape

(***************************************************************************)
(* MacroRecorder.js: startRecording, stopRecording, recordAction           *)
(***************************************************************************)
\* actions the buffer of MacroRecorder.js holds
MaxJsActions == 3

\* the events recordAction is attached to that a user produces
JsEventTypes == { "click", "submit" }

InitJs ==
  /\ isRecording = FALSE
  /\ recordedActions = << >>
  /\ jsListening = FALSE
  /\ jsSaved = << >>
  /\ jsKept = << >>

\* startRecording (the Start button, or AutoFlowMacroRecorder.start): adding
\* the same function again to window is ignored by addEventListener
JsStartRecording ==
  /\ UNCHANGED notJs
  /\ jsKept' = IF isRecording THEN recordedActions ELSE << >>
  /\ isRecording' = TRUE
  /\ recordedActions' = << >>
  /\ jsListening' = TRUE
  /\ UNCHANGED jsSaved

\* stopRecording
JsStopRecording ==
  /\ UNCHANGED notJs
  /\ isRecording
  /\ isRecording' = FALSE
  /\ jsListening' = FALSE
  /\ jsSaved' = recordedActions
  /\ UNCHANGED << recordedActions, jsKept >>

\* recordAction, for one event on window
JsRecordAction(type) ==
  /\ UNCHANGED notJs
  /\ jsListening
  /\ isRecording
  /\ Len(recordedActions) < MaxJsActions
  /\ recordedActions' = Append(recordedActions, [type |-> type])
  /\ jsSaved' = recordedActions'
  /\ UNCHANGED << isRecording, jsListening, jsKept >>

NextJs ==
  \/ JsStartRecording
  \/ JsStopRecording
  \/ \E type \in JsEventTypes : JsRecordAction(type)

(***************************************************************************)
(* AdvancedSchedulingService.handleWebhookRequest                          *)
(***************************************************************************)
\* conditions one webhook declares
MaxConditions == 2

\* a JavaScript value of a payload field: undefined (the field is absent) or a
\* string, kept as its sequence of characters
Undefined == [kind |-> "undefined", chars |-> << >>]
Str(chars) == [kind |-> "string", chars |-> chars]

\* String(v)
StringOf(v) ==
  IF v.kind = "undefined" THEN << "u", "n", "d", "e", "f", "i", "n", "e", "d" >>
  ELSE v.chars

\* s.includes(t)
Includes(s, t) ==
  \E i \in 1..(Len(s) + 1) :
    i + Len(t) - 1 <= Len(s) /\ SubSeq(s, i, i + Len(t) - 1) = t

PayloadFields == { "status", "kind" }

PayloadValues == { Undefined, Str(<< "o", "k" >>), Str(<< "o", "k", "a", "y" >>) }

\* condition.value of the model's conditions
ConditionValues == { << "o", "k" >>, << "d", "e", "f" >> }

Conditions ==
  [ field : PayloadFields, operator : { "equals", "contains", "exists" },
    value : ConditionValues ]

\* webhook.conditions: absent, or a list of conditions
ConditionLists ==
  { [set |-> FALSE, list |-> << >>] } \cup
  { [set |-> TRUE, list |-> l] : l \in UNION { [1..n -> Conditions] : n \in 0..MaxConditions } }

Webhooks == [ registered : BOOLEAN, enabled : BOOLEAN, conditions : ConditionLists ]

\* getNestedProperty(payload, condition.field) for a one-level path
GetNestedProperty(obj, path) == obj[path]

\* the callback given to conditions.every
ConditionMet(obj, condition) ==
  LET fieldValue == GetNestedProperty(obj, condition.field)
  IN IF condition.operator = "equals"
       THEN fieldValue = Str(condition.value)
     ELSE IF condition.operator = "contains"
       THEN Includes(StringOf(fieldValue), condition.value)
     ELSE IF condition.operator = "exists"
       THEN fieldValue # Undefined
     ELSE FALSE

ConditionsMet(hook, obj) ==
  IF hook.conditions.set
    THEN \A i \in 1..Len(hook.conditions.list) : ConditionMet(obj, hook.conditions.list[i])
    ELSE TRUE

NoHookResult == [done |-> FALSE, started |-> FALSE, success |-> FALSE]

InitWebhook ==
  /\ webhook \in { h \in Webhooks : h.enabled => h.registered }
  /\ payload \in [PayloadFields -> PayloadValues]
  /\ hookResult = NoHookResult

WebhookIdle ==
  /\ webhook = [registered |-> FALSE, enabled |-> FALSE,
                conditions |-> [set |-> FALSE, list |-> << >>]]
  /\ payload = [f \in PayloadFields |-> Undefined]
  /\ hookResult = NoHookResult


\* handleWebhookRequest; simFails is the outcome of simulateWorkflowExecution
HandleWebhookRequest(simFails) ==
  /\ UNCHANGED notWebhook
  /\ ~hookResult.done
  /\ hookResult' =
       IF ~webhook.registered \/ ~webhook.enabled
         THEN [done |-> TRUE, started |-> FALSE, success |-> FALSE]
       ELSE IF ~ConditionsMet(webhook, payload)
         THEN [done |-> TRUE, started |-> FALSE, success |-> FALSE]
       ELSE [done |-> TRUE, started |-> TRUE, success |-> ~simFails]
  /\ UNCHANGED << webhook, payload >>

NextWebhook == \E simFails \in BOOLEAN : HandleWebhookRequest(simFails)

(***************************************************************************)
(* AdvancedSchedulingService.emitEvent                                     *)
(***************************************************************************)
MaxTriggers == 2

EventNames == {"a", "b"}
FilterKeys == {"k"}
FilterValues == {"x", "y"}

\* trigger.filters: undefined, or an object over some of the keys
NoFilters == [present |-> FALSE, map |-> << >>]
FilterObjects ==
  {NoFilters} \cup
  { [present |-> TRUE, map |-> m] :
      m \in UNION { [ks -> FilterValues] : ks \in SUBSET FilterKeys } }

EventTriggers ==
  [ enabled : BOOLEAN, eventType : EventNames, source : EventNames,
    filters : FilterObjects, workflowId : {"w1", "w2"} ]

\* data: any -- undefined, or an object whose keys may be absent
NoData == [defined |-> FALSE, map |-> << >>]
EventData ==
  {NoData} \cup
  { [defined |-> TRUE, map |-> m] :
      m \in UNION { [ks -> FilterValues] : ks \in SUBSET FilterKeys } }

\* Array.from(this.eventTriggers.values()).filter(...): ids in Map order
RECURSIVE MatchingFrom(_)
MatchingFrom(i) ==
  IF i > Len(eventTriggers) THEN << >>
  ELSE LET t == eventTriggers[i]
           rest == MatchingFrom(i + 1)
       IN IF t.enabled /\ t.eventType = event.eventType /\ t.source = event.source
            THEN << i >> \o rest
            ELSE rest

matchingTriggers == MatchingFrom(1)

\* data[key] on undefined data is a TypeError; every() on no entries reads nothing
FiltersThrow(t) ==
  t.filters.present /\ DOMAIN t.filters.map # {} /\ ~event.data.defined

\* Object.entries(trigger.filters).every(([key, value]) => data[key] === value)
filtersMatch(t) ==
  \A key \in DOMAIN t.filters.map :
    key \in DOMAIN event.data.map /\ event.data.map[key] = t.filters.map[key]

NoEmitResult ==
  [ done |-> FALSE, threw |-> FALSE, triggeredWorkflows |-> << >>,
    executionIds |-> << >>, fired |-> << >>, failed |-> {} ]

InitEvents ==
  /\ eventTriggers \in UNION { [1..n -> EventTriggers] : n \in 1..MaxTriggers }
  /\ event \in [ eventType : {"a"}, source : EventNames, data : EventData ]
  /\ emitPos = 1
  /\ emitResult = NoEmitResult

EventsIdle ==
  /\ eventTriggers = << >>
  /\ event = [eventType |-> "a", source |-> "a", data |-> NoData]
  /\ emitPos = 1
  /\ emitResult = NoEmitResult

\* One iteration of `for (const trigger of matchingTriggers)`; simFails is the
\* outcome of the awaited simulateWorkflowExecution.
EmitEventIteration(simFails) ==
  /\ UNCHANGED notEvents
  /\ ~emitResult.done
  /\ emitPos <= Len(matchingTriggers)
  /\ LET id == matchingTriggers[emitPos]
         t == eventTriggers[id]
     IN IF t.filters.present /\ FiltersThrow(t)
          THEN /\ emitResult' = [emitResult EXCEPT !.done = TRUE, !.threw = TRUE]
               /\ UNCHANGED emitPos
        ELSE IF t.filters.present /\ ~filtersMatch(t)
          THEN /\ emitPos' = emitPos + 1
               /\ UNCHANGED emitResult
        ELSE /\ emitPos' = emitPos + 1
             /\ emitResult' =
                  IF simFails
                    THEN [emitResult EXCEPT !.fired = Append(@, id),
                                            !.failed = @ \cup {id}]
                    ELSE [emitResult EXCEPT
                            !.fired = Append(@, id),
                            !.triggeredWorkflows = Append(@, t.workflowId),
                            !.executionIds = Append(@, id)]
  /\ UNCHANGED << eventTriggers, event >>

\* return { triggeredWorkflows, executionIds }
EmitEventReturn ==
  /\ UNCHANGED notEvents
  /\ ~emitResult.done
  /\ emitPos > Len(matchingTriggers)
  /\ emitResult' = [emitResult EXCEPT !.done = TRUE]
  /\ UNCHANGED << eventTriggers, event, emitPos >>

NextEvents ==
  \/ \E simFails \in BOOLEAN : EmitEventIteration(simFails)
  \/ EmitEventReturn

(***************************************************************************)
(* WorkflowExecutionEngine.executeCondition                                *)
(***************************************************************************)
MaxConditionLen == 4
MaxMessages == 2

\* A condition string, whitespace dropped, as its sequence of tokens.
OperatorChars == {">", "<", "="}
Digits == {"0", "1", "2"}
ConditionTokens == {"email_count", "n", "true", "false"} \cup OperatorChars \cup Digits
ConditionStrings == UNION { [1..n -> ConditionTokens] : n \in 0..MaxConditionLen }

DigitValue(d) == IF d = "0" THEN 0 ELSE IF d = "1" THEN 1 ELSE 2

\* parseInt(match[2])
RECURSIVE ParseInt(_)
ParseInt(ds) ==
  IF ds = << >> THEN 0
  ELSE 10 * ParseInt(SubSeq(ds, 1, Len(ds) - 1)) + DigitValue(ds[Len(ds)])

\* end of the longest run of tokens of a class starting at position from
RunEnd(c, from, class) ==
  CHOOSE j \in (from - 1)..Len(c) :
    /\ \A k \in from..j : c[k] \in class
    /\ j = Len(c) \/ c[j + 1] \notin class

\* condition.match(/email_count\s*([><=]+)\s*(\d+)/): leftmost match, greedy groups
RegexMatch(c) ==
  LET starts == { i \in 1..Len(c) :
                    /\ c[i] = "email_count"
                    /\ RunEnd(c, i + 1, OperatorChars) > i
                    /\ RunEnd(c, RunEnd(c, i + 1, OperatorChars) + 1, Digits)
                         > RunEnd(c, i + 1, OperatorChars) }
  IN IF starts = {} THEN [found |-> FALSE, operator |-> << >>, threshold |-> 0]
     ELSE LET i == CHOOSE x \in starts : \A y \in starts : x <= y
              j == RunEnd(c, i + 1, OperatorChars)
              k == RunEnd(c, j + 1, Digits)
          IN [ found |-> TRUE, operator |-> SubSeq(c, i + 1, j),
               threshold |-> ParseInt(SubSeq(c, j + 1, k)) ]

\* the switch over match[1]
SwitchOperator(operator, count, threshold) ==
  IF operator = << ">" >> THEN count > threshold
  ELSE IF operator = << "<" >> THEN count < threshold
  ELSE IF operator = << ">", "=" >> THEN count >= threshold
  ELSE IF operator = << "<", "=" >> THEN count <= threshold
  ELSE IF operator = << "=", "=" >> THEN count = threshold
  ELSE TRUE

\* the value of `result` at the end of the try block
EvaluateCondition(cond, count) ==
  LET c == IF cond = << >> THEN << "true" >> ELSE cond
  IN IF c = << "true" >> THEN TRUE
     ELSE IF c = << "false" >> THEN FALSE
     ELSE IF \E i \in 1..Len(c) : c[i] = "email_count"
       THEN IF RegexMatch(c).found
              THEN SwitchOperator(RegexMatch(c).operator, count, RegexMatch(c).threshold)
              ELSE FALSE
     ELSE TRUE

InitCondition ==
  /\ nodeCondition \in ConditionStrings
  /\ emailCount \in 0..MaxMessages
  /\ conditionResult = [set |-> FALSE, value |-> FALSE]

ConditionIdle ==
  /\ nodeCondition = << >>
  /\ emailCount = 0
  /\ conditionResult = [set |-> FALSE, value |-> FALSE]

executeCondition ==
  /\ UNCHANGED notCondition
  /\ ~conditionResult.set
  /\ conditionResult' = [set |-> TRUE, value |-> EvaluateCondition(nodeCondition, emailCount)]
  /\ UNCHANGED << nodeCondition, emailCount >>

NextCondition == executeCondition

(***************************************************************************)
(* MacroRecorder generateSelector (component and bookmarklet copies)       *)
(***************************************************************************)
MaxClassLen == 3

\* An element as it is in the document: tag and attributes.  Absent marks a
\* missing attribute; strings are sequences of characters or words.
Absent == << "absent" >>
TagNames == {"INPUT", "BUTTON", "DIV", "svg"}
ClassChars == {" ", "\t", "a", "b"}
ClassStrings == UNION { [1..n -> ClassChars] : n \in 0..MaxClassLen }
Elements ==
  { el \in [ tagName : TagNames,
             id : {Absent, << >>, << "i" >>},
             class : ClassStrings,
             type : {Absent, << "text" >>, << "submit" >>},
             name : {Absent, << "email" >>},
             placeholder : {Absent, << "hint" >>} ] :
      \* form attributes appear on form controls only
      /\ el.tagName \notin {"INPUT", "BUTTON"} => el.type = Absent /\ el.name = Absent
      /\ el.tagName # "INPUT" => el.placeholder = Absent
      /\ el.tagName = "BUTTON" => el.type # << "text" >> }

\* The properties the code reads, as the DOM derives them from the attributes.
\* Undefined properties and empty strings are both falsy: both are << >>.
\* element.id
IdOf(el) == IF el.id = Absent THEN << >> ELSE el.id
\* typeof element.className === 'string' (an SVG element has an SVGAnimatedString)
ClassNameIsString(el) == el.tagName # "svg"
\* element.type: inputs default to "text", buttons to "submit"
TypeOf(el) ==
  IF el.tagName = "INPUT" THEN (IF el.type = Absent THEN << "text" >> ELSE el.type)
  ELSE IF el.tagName = "BUTTON"
    THEN (IF el.type = << "submit" >> THEN el.type ELSE << "submit" >>)
  ELSE << >>
\* element.name
NameOf(el) ==
  IF el.tagName \in {"INPUT", "BUTTON"} /\ el.name # Absent THEN el.name ELSE << >>
\* element.placeholder
PlaceholderOf(el) ==
  IF el.tagName = "INPUT" /\ el.placeholder # Absent THEN el.placeholder ELSE << >>

\* element.tagName.toLowerCase()
ToLowerCase(tag) ==
  IF tag = "INPUT" THEN "input" ELSE IF tag = "BUTTON" THEN "button"
  ELSE IF tag = "DIV" THEN "div" ELSE "svg"

\* str.split(sep) for single-character separators, keeping empty pieces
RECURSIVE Split(_, _)
Split(str, seps) ==
  IF \A i \in 1..Len(str) : str[i] \notin seps THEN << str >>
  ELSE LET i == CHOOSE x \in 1..Len(str) :
                  str[x] \in seps /\ \A y \in 1..(x - 1) : str[y] \notin seps
       IN << SubSeq(str, 1, i - 1) >> \o Split(SubSeq(str, i + 1, Len(str)), seps)

NonEmpty(piece) == Len(piece) > 0

\* `[attr="value"]`
AttributeClause(attr, value) == << "[", attr, "=\"" >> \o value \o << "\"]" >>

generateSelector(el) ==
  LET classes == SelectSeq(Split(el.class, {" "}), NonEmpty)
  IN IF IdOf(el) # << >> THEN << "#" >> \o IdOf(el)
     ELSE IF el.class # << >> /\ ClassNameIsString(el) /\ Len(classes) > 0
       THEN << "." >> \o classes[1]
     ELSE << ToLowerCase(el.tagName) >>
            \o (IF TypeOf(el) # << >> THEN AttributeClause("type", TypeOf(el)) ELSE << >>)
            \o (IF NameOf(el) # << >> THEN AttributeClause("name", NameOf(el)) ELSE << >>)
            \o (IF PlaceholderOf(el) # << >>
                  THEN AttributeClause("placeholder", PlaceholderOf(el)) ELSE << >>)

NoSelector == [set |-> FALSE, value |-> << >>]

InitSelector ==
  /\ element \in Elements
  /\ selector = NoSelector

SelectorIdle ==
  /\ element = [ tagName |-> "DIV", id |-> Absent, class |-> << >>, type |-> Absent,
                 name |-> Absent, placeholder |-> Absent ]
  /\ selector = NoSelector

\* an event handler asks for the selector of its target
GenerateSelector ==
  /\ UNCHANGED notSelector
  /\ ~selector.set
  /\ selector' = [set |-> TRUE, value |-> generateSelector(element)]
  /\ UNCHANGED element

(***************************************************************************)
(* MacroRecorder.generateScript                                            *)
(***************************************************************************)
MaxScriptActions == 3
MaxScripts == 2
MaxNow == 1

\* action.url is optional: actions added on the recorder's own page carry none
NoUrl == "none"
Hrefs == {"https://a", "https://b"}
NoStartTime == [set |-> FALSE, at |-> 0]

\* the actions the recorder produces: clicks, inputs and key presses
ScriptActions ==
  { [ type |-> "click", url |-> u, selector |-> sel, value |-> "",
      element |-> "button", text |-> IF sel = ".btn" THEN "Go" ELSE "" ] :
      u \in {NoUrl, "https://a"}, sel \in {"#login", ".btn"} }
  \cup { [ type |-> "input", url |-> u, selector |-> "#email", value |-> "alice",
           element |-> "input", text |-> "" ] : u \in {NoUrl, "https://a"} }
  \cup { [ type |-> "keypress", url |-> u, selector |-> "", value |-> "Enter",
           element |-> "keyboard", text |-> "" ] : u \in {NoUrl, "https://a"} }
ActionSequences == UNION { [1..n -> ScriptActions] : n \in 0..MaxScriptActions }

\* the ordered entries of groupedByUrl after the reduce; a URL is never an
\* array-index key, so Object.entries keeps the order in which keys were added
RECURSIVE groupedByUrl(_, _)
groupedByUrl(acts, location) ==
  IF acts = << >> THEN << >>
  ELSE LET n == Len(acts)
           acc == groupedByUrl(SubSeq(acts, 1, n - 1), location)
           url == IF acts[n].url # NoUrl THEN acts[n].url ELSE location
       IN IF \E g \in 1..Len(acc) : acc[g].url = url
            THEN [ g \in 1..Len(acc) |->
                     IF acc[g].url = url
                       THEN [acc[g] EXCEPT !.urlActions = Append(@, acts[n])]
                       ELSE acc[g] ]
            ELSE Append(acc, [url |-> url, urlActions |-> << acts[n] >>])

\* the switch over action.type without its 'input' case
ScriptLineWithoutInputCase(action) ==
  IF action.type = "click"
    THEN << "  await page.click('", action.selector, "'); // Click on ", action.element >>
           \o (IF action.text # "" THEN << " - \"", action.text, "\"" >> ELSE << >>)
  ELSE IF action.type = "keypress"
    THEN << "  await page.keyboard.press('", action.value, "'); // Key: ", action.value >>
  ELSE << "  // ", action.type, ": ", action.element >>

\* the line emitted for one action by the switch over action.type
ScriptLine(action) ==
  IF action.type = "click"
    THEN << "  await page.click('", action.selector, "'); // Click on ", action.element >>
           \o (IF action.text # "" THEN << " - \"", action.text, "\"" >> ELSE << >>)
  ELSE IF action.type = "input"
    THEN << "  await page.fill('", action.selector, "', '", action.value,
            "'); // Input: ", action.value >>
  ELSE IF action.type = "keypress"
    THEN << "  await page.keyboard.press('", action.value, "'); // Key: ", action.value >>
  ELSE << "  // ", action.type, ": ", action.element >>

\* one entry of `scripts`: the goto header of a URL followed by its lines
UrlScript(group) ==
  << << "  // Actions for ", group.url >>, << "  await page.goto('", group.url, "');" >> >>
    \o [ i \in 1..Len(group.urlActions) |-> ScriptLine(group.urlActions[i]) ]

\* Math.round((Date.dateNow() - startTime) / 1000), or 0 without a start time
RecordingDuration(start, time) == IF start.set THEN time - start.at ELSE 0

\* the returned text: the header comment lines, then the per-URL scripts
generateScript(acts, start, time, location) ==
  LET grouped == groupedByUrl(acts, location)
  IN [ header |-> << << "// Total actions: ", Len(acts) >>,
                     << "// Websites: ", Len(grouped) >>,
                     << "// Recording duration: ", RecordingDuration(start, time), "s" >> >>,
       scripts |-> [ g \in 1..Len(grouped) |-> UrlScript(grouped[g]) ] ]

InitScript ==
  /\ actions \in ActionSequences
  /\ startTime \in {NoStartTime, [set |-> TRUE, at |-> 0]}
  /\ dateNow = 0
  /\ href \in Hrefs
  /\ scripts = << >>

ScriptIdle ==
  /\ actions = << >>
  /\ startTime = NoStartTime
  /\ dateNow = 0
  /\ href = "https://a"
  /\ scripts = << >>

\* a render, copyScript or downloadScript calls generateScript()
GenerateScript ==
  /\ UNCHANGED notScript
  /\ Len(scripts) < MaxScripts
  /\ scripts' = Append(scripts, [ text |-> generateScript(actions, startTime, dateNow, href),
                                  href |-> href ])
  /\ UNCHANGED << actions, startTime, dateNow, href >>

\* time passes between two calls
ScriptTimePasses ==
  /\ UNCHANGED notScript
  /\ dateNow < MaxNow
  /\ dateNow' = dateNow + 1
  /\ UNCHANGED << actions, startTime, href, scripts >>

\* the page the component runs on is reached under another URL
ScriptNavigate(location) ==
  /\ UNCHANGED notScript
  /\ location # href
  /\ href' = location
  /\ UNCHANGED << actions, startTime, dateNow, scripts >>

NextScript ==
  \/ GenerateScript
  \/ ScriptTimePasses
  \/ \E location \in Hrefs : ScriptNavigate(location)

(***************************************************************************)
(* WorkflowBuilder: addNode, connectNodes, deleteNode                      *)
(***************************************************************************)
MaxBuilderNodes == 3
MaxConnections == 3

\* useState<WorkflowTemplate>({ ..., nodes: [], connections: [] })
InitBuilder ==
  /\ workflow = [nodes |-> << >>, connections |-> << >>]
  /\ nodesCreated = 0

\* the ids of the nodes in the graph
BuilderNodeIds == { workflow.nodes[i].id : i \in 1..Len(workflow.nodes) }

addNode ==
  /\ UNCHANGED notBuilder
  /\ nodesCreated < MaxBuilderNodes
  /\ nodesCreated' = nodesCreated + 1
  /\ workflow' = [workflow EXCEPT
                    !.nodes = Append(@, [id |-> nodesCreated + 1, connections |-> << >>])]

deleteNode(nodeId) ==
  /\ UNCHANGED notBuilder
  /\ LET KeepNode(node) == node.id # nodeId
         KeepConn(conn) == conn.from # nodeId /\ conn.to # nodeId
     IN workflow' = [ nodes |-> SelectSeq(workflow.nodes, KeepNode),
                      connections |-> SelectSeq(workflow.connections, KeepConn) ]
  /\ UNCHANGED nodesCreated

connectNodes(fromId, toId) ==
  /\ UNCHANGED notBuilder
  /\ Len(workflow.connections) < MaxConnections
  /\ workflow' =
       [ nodes |-> [ i \in 1..Len(workflow.nodes) |->
                       IF workflow.nodes[i].id = fromId
                         THEN [workflow.nodes[i] EXCEPT !.connections = Append(@, toId)]
                         ELSE workflow.nodes[i] ],
         connections |-> Append(workflow.connections, [from |-> fromId, to |-> toId]) ]
  /\ UNCHANGED nodesCreated

NextBuilder ==
  \/ addNode
  \/ \E nodeId \in BuilderNodeIds : deleteNode(nodeId)
  \/ \E fromId \in BuilderNodeIds, toId \in BuilderNodeIds : connectNodes(fromId, toId)

(***************************************************************************)
(* Specifications: one per subsystem; the other subsystems stay as         *)
(* constructed                                                             *)
(***************************************************************************)
SchedulerIdle ==
  /\ schedules = [sid \in SchedIds |->
                    [enabled |-> TRUE, schedule |-> "1m", retryPolicy |-> NoPolicy]]
  /\ executions = << >>
  /\ retryTimers = {}
  /\ ticks = [t \in TickIds |-> IdleTick]
  /\ ticksFired = 0
  /\ clock = 0
  /\ retryLog = << >>
  /\ toggles = 0
  /\ isRunning = TRUE

RecorderIdle ==
  /\ relation = "none"
  /\ surfActive = FALSE
  /\ surfActions = << >>
  /\ surfStart = -1
  /\ surfSessions = 0
  /\ surfUI = FALSE
  /\ surfListeners = 0
  /\ reattach = NoReattach
  /\ lastAdded = -1
  /\ surfStopped = NotStopped
  /\ ctlStartTime = -1
  /\ actionIdCounter = 0
  /\ pageListeners = << >>
  /\ macroListeners = FALSE
  /\ pageEvents = 0
  /\ pageAdded = 0
  /\ escapePressed = FALSE
  /\ channel = << >>
  /\ ctlActions = << >>
  /\ ctlRecording = FALSE
  /\ rclock = 0

CallsIdle ==
  /\ WebhookIdle /\ EventsIdle /\ ConditionIdle /\ SelectorIdle /\ ScriptIdle
  /\ InitBuilder

InitEngineSpec == InitEngine /\ SchedulerIdle /\ InitExecutor /\ RecorderIdle /\ InitJs /\ CallsIdle

SpecEngine == InitEngineSpec /\ [][NextEngine]_vars

InitSchedulerSpec == InitScheduler /\ InitEngine /\ InitExecutor /\ RecorderIdle /\ InitJs /\ CallsIdle

SpecScheduler == InitSchedulerSpec /\ [][NextScheduler]_vars

InitExecutorSpec == InitExecutor /\ InitEngine /\ SchedulerIdle /\ RecorderIdle /\ InitJs /\ CallsIdle

SpecExecutor == InitExecutorSpec /\ [][NextExecutor]_vars

InitRecorderSpec == RecorderIdle /\ InitEngine /\ SchedulerIdle /\ InitExecutor /\ InitJs /\ CallsIdle

SpecRecorder == InitRecorderSpec /\ [][NextRecorder]_vars

InitPageSpec == RecorderIdle /\ InitExecutor /\ InitEngine /\ SchedulerIdle /\ InitJs /\ CallsIdle

SpecPage == InitPageSpec /\ [][NextPage]_vars

InitJsSpec == InitJs /\ InitEngine /\ SchedulerIdle /\ InitExecutor /\ RecorderIdle /\ CallsIdle

SpecJs == InitJsSpec /\ [][NextJs]_vars

OthersIdle == InitEngine /\ SchedulerIdle /\ InitExecutor /\ RecorderIdle /\ InitJs

InitWebhookSpec == InitWebhook /\ OthersIdle /\ EventsIdle /\ ConditionIdle /\ SelectorIdle /\ ScriptIdle
    /\ InitBuilder

SpecWebhook == InitWebhookSpec /\ [][NextWebhook]_vars

InitEventsSpec == InitEvents /\ OthersIdle /\ WebhookIdle /\ ConditionIdle /\ SelectorIdle /\ ScriptIdle
    /\ InitBuilder

SpecEvents == InitEventsSpec /\ [][NextEvents]_vars

InitConditionSpec == InitCondition /\ OthersIdle /\ WebhookIdle /\ EventsIdle /\ SelectorIdle /\ ScriptIdle
    /\ InitBuilder

SpecCondition == InitConditionSpec /\ [][NextCondition]_vars

InitSelectorSpec ==
  InitSelector /\ OthersIdle /\ WebhookIdle /\ EventsIdle /\ ConditionIdle /\ ScriptIdle
    /\ InitBuilder

SpecSelector == InitSelectorSpec /\ [][GenerateSelector]_vars

InitScriptSpec ==
  InitScript /\ OthersIdle /\ WebhookIdle /\ EventsIdle /\ ConditionIdle /\ SelectorIdle
    /\ InitBuilder

SpecScript == InitScriptSpec /\ [][NextScript]_vars

InitBuilderSpec ==
  InitBuilder /\ OthersIdle /\ WebhookIdle /\ EventsIdle /\ ConditionIdle /\ SelectorIdle
    /\ ScriptIdle

SpecBuilder == InitBuilderSpec /\ [][NextBuilder]_vars

(***************************************************************************)
(* Claims about WorkflowExecutionEngine                                    *)
(***************************************************************************)
\* the "skipped: already visited" warnings call r has logged
SkipWarnings(r) ==
  { i \in 1..Len(context.logs) :
      /\ context.logs[i].run = r
      /\ context.logs[i].level = "warn"
      /\ context.logs[i].message = "skipped: already visited" }

\* the executeNode invocations call r has reported as 'running'
RunningEvents(r) ==
  { i \in 1..Len(progress[r]) : progress[r][i][2] = "running" }

\* C1: within one executeWorkflow run no node is executed more than once
\* (onProgress reports 'running' at most once per node and run).
C1_NoNodeExecutedTwice ==
  \A r \in Runs : \A n \in NodeIds : Cardinality(Reported(r, n, "running")) <= 1

\* C2: a run that reaches an already-visited node through a connection logs
\* exactly one "skipped: already visited" warning for it, and the run completes:
\* it never makes more executeNode calls than the graph has nodes.
C2_BackEdgeSkippedOnce ==
  \A r \in Runs :
    status[r] # "idle" =>
      /\ Cardinality(SkipWarnings(r)) = revisits[r]
      /\ Cardinality(RunningEvents(r)) <= Len(Workflows[wfOf[r]].nodes)

\* the graphs trigger -> A -> B, trigger -> C in which node A throws
FailGraphs == {"failAC", "failCA"}

C7_FreshContextPerRun ==
  \A r \in Runs :
    /\ status[r] # "idle" => ctxAtStart[r] = EmptyContext
    /\ status[r] = "resolved" =>
         \A i \in 1..Len(context.logs) : context.logs[i].run = r

(***************************************************************************)
(* Claims about AdvancedSchedulingService                                  *)
(***************************************************************************)
PolicyOf(x) == schedules[x.scheduleId].retryPolicy

\* C4: a firing that keeps failing is retried at most maxAttempts times; the
\* failure of the last allowed retry leaves the execution terminal 'failed'
\* with no retry timer set.
C4_RetriesBounded ==
  \A i \in 1..Len(executions) :
    LET x == executions[i] IN
      PolicyOf(x).set =>
        /\ x.attempt - 1 <= PolicyOf(x).maxAttempts
        /\ x.attempt - 1 >= PolicyOf(x).maxAttempts =>
             /\ x.status # "scheduled"
             /\ \A tm \in retryTimers : tm.execution # i

\* C5: the k-th consecutive failure of a firing schedules exactly one retry,
\* counted as retry k, after min(maxDelay, 1000 * backoffMultiplier^(k-1)) ms.
C5_RetryBackoff ==
  \A i \in 1..Len(retryLog) :
    LET l      == retryLog[i]
        policy == PolicyOf(executions[l.execution])
    IN /\ l.retryCount = l.failure
       /\ l.delay = Min(policy.maxDelay,
                        RetryBaseMs * Pow(policy.backoffMultiplier, l.failure - 1))
       /\ \A j \in 1..Len(retryLog) :
            (retryLog[j].firing = l.firing /\ retryLog[j].failure = l.failure) => j = i

\* C6: a tick is never held up by one schedule's execution while a later
\* schedule that is enabled and due at the tick's time has no execution yet.
C6_TickNotBlocked ==
  \A t \in TickIds :
    (ticks[t].state = "active" /\ executions[ticks[t].awaiting].status = "running") =>
      \A j \in (ticks[t].pos + 1)..Len(SchedOrder) : ~DueAt(j, ticks[t].now)

(***************************************************************************)
(* Claims about WorkflowExecutor                                           *)
(***************************************************************************)
\* stopCurrentExecution has acted on the execution of call c
Stopped(c) == calls[c].stoppedAt >= 0

\* C8: once stopCurrentExecution has been called on a running execution, its
\* log is 'failed' with the 'stopped' result in every later state.
C8_StoppedStaysFailed ==
  \A c \in 1..Len(calls) :
    Stopped(c) =>
      /\ executionLogs[c].status = "failed"
      /\ executionLogs[c].result.message = StoppedMessage

\* C9: after a run has been asked to stop, no further action of its list is
\* started (the action executing at the time of the stop is the last one).
C9_NoActionAfterStop ==
  \A c \in 1..Len(calls) :
    Stopped(c) => calls[c].started <= calls[c].stoppedAt

(***************************************************************************)
(* Claims about the recorder's controller                                  *)
(***************************************************************************)
\* C10: the controller's action list never contains two entries with the
\* same Action id, whatever MACRO_ACTION and MACRO_COMPLETE messages the
\* recording surface has posted.
C10_ControllerDedupesById ==
  \A i, j \in 1..Len(ctlActions) :
    i # j => ctlActions[i].id # ctlActions[j].id

\* the timestamps of a list of actions never decrease
Ordered(list) ==
  \A i \in 1..(Len(list) - 1) : Leq(list[i].timestamp, list[i + 1].timestamp)

\* C11: in every reachable state, every adjacent pair of the recording
\* surface's buffer (while its session is active) and of the list the
\* controller accumulates from messages has
\* actions[i].timestamp <= actions[i+1].timestamp.
C11_TimestampsOrdered ==
  /\ surfActive => Ordered(surfActions)
  /\ Ordered(ctlActions)

\* C13: after a re-injection (session active, UI missing) the actions captured
\* before it are all still in the buffer, the re-injection itself adds none,
\* and each later interaction event appends exactly one action.
C13_ReattachKeepsSession ==
  (surfActive /\ reattach.done) =>
    /\ lastAdded = -1 => Len(surfActions) = reattach.kept
    /\ lastAdded # -1 => lastAdded = 1

\* C15: after the recorder script's stopRecording and before its next start,
\* no capture listener is attached and the buffer receives no action.
C15_DetachedAfterStop ==
  surfStopped.done => (surfListeners = 0 /\ surfActions = << >>)

(***************************************************************************)
(* Claims about the recording of the controller's own page                 *)
(***************************************************************************)
\* C14: while a session records the current page, every qualifying event
\* (click, input) has appended exactly one action to the session's list.
C14_OneActionPerEvent ==
  PageSession => pageAdded = pageEvents

\* C16: after an Escape key-down during a current-page session the recorder
\* is idle and its listeners are detached.
C16_EscapeStops ==
  escapePressed => (~ctlRecording /\ pageListeners = << >>)

(***************************************************************************)
(* Claims about MacroRecorder.js                                           *)
(***************************************************************************)
\* s is an initial segment of t
IsPrefix(s, t) == Len(s) <= Len(t) /\ SubSeq(t, 1, Len(s)) = s

\* C12: start() on a recorder that is already recording is a no-op: the
\* actions the buffer held at that start() are still its first actions.
C12_StartWhileRecordingNoOp ==
  isRecording => IsPrefix(jsKept, recordedActions)

C18_CompletedThenNoError ==
  \A r \in Runs : \A n \in NodeIds :
    \A i \in Reported(r, n, "completed") :
      \A j \in Reported(r, n, "error") : j < i

\* the positions of call r's progress reports with status 'error'
ErrorReports(r) == { i \in 1..Len(progress[r]) : progress[r][i][2] = "error" }

\* the node whose body threw in call r: the first to report 'error'
Origin(r) == progress[r][CHOOSE i \in ErrorReports(r) : \A j \in ErrorReports(r) : i <= j][1]

\* C19: when a node throws, the call does not resolve and rejects with that
\* node's error, the failing call attaches no metrics, the error is logged
\* with the failing node's id, and no node starts executing afterwards in
\* that run.
C19_ErrorPropagates ==
  \A r \in Runs :
    ErrorReports(r) # {} =>
      /\ status[r] # "resolved"
      /\ status[r] = "rejected" => thrown[r] = Origin(r)
      /\ r = runNo => context.variables = ctxAtStart[r].variables
      /\ \E k \in 1..Len(context.logs) :
           /\ context.logs[k].level = "error"
           /\ context.logs[k].nodeId = Origin(r)
           /\ context.logs[k].run = r
      /\ \A i \in ErrorReports(r) :
           \A j \in 1..Len(progress[r]) :
             progress[r][j][2] = "running" => j < i

C19_Witness ==
  /\ runNo = 1
  /\ wfOf[1] = "failCA"
  /\ status[1] = "rejected"
  /\ thrown[1] = "A"
  /\ Visited(1, "C")

(***************************************************************************)
(* Claims about the life of a ScheduleExecution record                     *)
(***************************************************************************)
\* C20: no execution record stays 'scheduled' once its retry timer has
\* fired: a record is 'scheduled' only while a retry timer of it is pending.
C20_RecordsReachTerminal ==
  \A i \in 1..Len(executions) :
    executions[i].status = "scheduled" =>
      \E tm \in retryTimers : tm.execution = i

\* C21: every ScheduleExecution, whether created by the polling tick or by a
\* retry timer, is created for a schedule that is enabled at that moment.
C21_OnlyEnabledSchedulesRun ==
  \A i \in 1..Len(executions) : executions[i].enabledAtCreation

\* C30: no ScheduleExecution is created after shutdown() has returned.
C30_NothingRunsAfterShutdown ==
  \A i \in 1..Len(executions) : ~executions[i].afterShutdown

(***************************************************************************)
(* Claims about webhook and event triggers                                 *)
(***************************************************************************)
\* a declared condition holds for the payload: the field equals the value,
\* the field is present and contains the value, the field is present
ConditionHolds(obj, condition) ==
  LET v == obj[condition.field]
  IN /\ v.kind = "string"
     /\ condition.operator = "equals" => v.chars = condition.value
     /\ condition.operator = "contains" => Includes(v.chars, condition.value)

\* C22: handleWebhookRequest starts an execution exactly when the webhook is
\* registered and enabled and every declared condition holds for the
\* payload; otherwise it returns success = false.
C22_WebhookStartsIffMatched ==
  hookResult.done =>
    /\ hookResult.started <=>
         /\ webhook.registered
         /\ webhook.enabled
         /\ \A i \in 1..Len(webhook.conditions.list) :
              ConditionHolds(payload, webhook.conditions.list[i])
    /\ ~hookResult.started => ~hookResult.success

\* The specification's reading of "filters match": no filters, or every filter
\* key present in the event data with the same value.
FiltersHold(t) ==
  t.filters.present =>
    \A key \in DOMAIN t.filters.map :
      /\ event.data.defined
      /\ key \in DOMAIN event.data.map
      /\ event.data.map[key] = t.filters.map[key]

Matches(i) ==
  LET t == eventTriggers[i]
  IN /\ t.enabled /\ t.eventType = event.eventType /\ t.source = event.source
     /\ FiltersHold(t)

RECURSIVE MatchingIds(_)
MatchingIds(i) ==
  IF i > Len(eventTriggers) THEN << >>
  ELSE IF Matches(i) THEN << i >> \o MatchingIds(i + 1) ELSE MatchingIds(i + 1)

RECURSIVE Succeeded(_)
Succeeded(ids) ==
  IF ids = << >> THEN << >>
  ELSE IF Head(ids) \in emitResult.failed THEN Succeeded(Tail(ids))
  ELSE << Head(ids) >> \o Succeeded(Tail(ids))

\* C23: when emitEvent has finished, it returned normally, every matching
\* enabled trigger had its execution attempted (whatever the outcome of the
\* others), and triggeredWorkflows / executionIds list exactly the matching
\* triggers whose execution succeeded, with the same length and order.
C23_EachMatchingTriggerFires ==
  emitResult.done =>
    /\ ~emitResult.threw
    /\ emitResult.fired = MatchingIds(1)
    /\ emitResult.executionIds = Succeeded(MatchingIds(1))
    /\ emitResult.triggeredWorkflows =
         [ i \in 1..Len(emitResult.executionIds) |->
             eventTriggers[emitResult.executionIds[i]].workflowId ]

\* '<name> <op> <number>' with op one of >, <, >=, <=, ==
IsComparison(c) ==
  /\ Len(c) >= 3
  /\ c[1] \in {"email_count", "n"}
  /\ LET j == RunEnd(c, 2, OperatorChars)
     IN /\ SubSeq(c, 2, j) \in { << ">" >>, << "<" >>, << ">", "=" >>,
                                << "<", "=" >>, << "=", "=" >> }
        /\ j < Len(c)
        /\ RunEnd(c, j + 1, Digits) = Len(c)

\* C24: the condition node stores a boolean: the literal for 'true'/'false'
\* (an absent condition counts as 'true'), the comparison's value for
\* 'email_count <op> <number>', and never true for an expression that is
\* neither a literal nor a comparison.
C24_ConditionEvaluatedAsWritten ==
  conditionResult.set =>
    /\ conditionResult.value \in BOOLEAN
    /\ nodeCondition \in { << >>, << "true" >> } => conditionResult.value
    /\ nodeCondition = << "false" >> => ~conditionResult.value
    /\ (IsComparison(nodeCondition) /\ nodeCondition[1] = "email_count") =>
         LET j == RunEnd(nodeCondition, 2, OperatorChars)
             op == SubSeq(nodeCondition, 2, j)
             number == ParseInt(SubSeq(nodeCondition, j + 1, Len(nodeCondition)))
         IN conditionResult.value =
              IF op = << ">" >> THEN emailCount > number
              ELSE IF op = << "<" >> THEN emailCount < number
              ELSE IF op = << ">", "=" >> THEN emailCount >= number
              ELSE IF op = << "<", "=" >> THEN emailCount <= number
              ELSE emailCount = number
    /\ (nodeCondition \notin { << >>, << "true" >>, << "false" >> } /\ ~IsComparison(nodeCondition)) =>
         ~conditionResult.value

\* the selector the priority chain prescribes for an element, read from its
\* attributes: id, then first class token, then tag with the present attributes
PrescribedSelector(el) ==
  LET tokens == SelectSeq(Split(el.class, {" ", "\t"}), NonEmpty)
      Clause(attr, value) ==
        IF value \in {Absent, << >>} THEN << >> ELSE AttributeClause(attr, value)
  IN IF el.id \notin {Absent, << >>} THEN << "#" >> \o el.id
     ELSE IF Len(tokens) > 0 THEN << "." >> \o tokens[1]
     ELSE << ToLowerCase(el.tagName) >>
            \o Clause("type", el.type) \o Clause("name", el.name)
            \o Clause("placeholder", el.placeholder)

\* C25: the selector returned for an element is the one the priority chain
\* prescribes: '#id' for a non-empty id, else '.class' for the first non-empty
\* class token, else the lower-cased tag name followed by the clauses of
\* exactly the type, name and placeholder attributes that are present.
C25_SelectorFollowsPriorityChain ==
  selector.set => selector.value = PrescribedSelector(element)

\* C26: every script text generated from the recorder's action list is the
\* same text, whenever and wherever the call is made.
C26_ScriptTextDeterministic ==
  \A i, j \in 1..Len(scripts) : scripts[i].text = scripts[j].text

\* the page URL an action belongs to when the script is produced at location
PageUrl(action, location) == IF action.url # NoUrl THEN action.url ELSE location

\* the URLs of the actions in first-seen order
RECURSIVE FirstSeenUrls(_, _)
FirstSeenUrls(acts, location) ==
  IF acts = << >> THEN << >>
  ELSE LET before == FirstSeenUrls(SubSeq(acts, 1, Len(acts) - 1), location)
           url == PageUrl(acts[Len(acts)], location)
       IN IF \E k \in 1..Len(before) : before[k] = url THEN before
          ELSE Append(before, url)

\* the kind of statement a script line is, with the locator and value it names
StatementOf(line) ==
  IF line[1] = "  await page.click('" THEN [kind |-> "click", locator |-> line[2], value |-> ""]
  ELSE IF line[1] = "  await page.fill('"
    THEN [kind |-> "input", locator |-> line[2], value |-> line[4]]
  ELSE IF line[1] = "  await page.keyboard.press('"
    THEN [kind |-> "keypress", locator |-> "", value |-> line[2]]
  ELSE [kind |-> "none", locator |-> "", value |-> ""]

Expected(action) ==
  [ kind |-> action.type,
    locator |-> IF action.type = "keypress" THEN "" ELSE action.selector,
    value |-> IF action.type = "click" THEN "" ELSE action.value ]

\* C27: a generated script has one group per page URL, in first-seen order of
\* the URLs; each group's statements are those of the actions of that URL in
\* list order, one per action: click-by-locator for a click,
\* fill-by-locator-with-value for an input, press-key for a keypress.
C27_OneStatementPerActionGroupedByUrl ==
  \A s \in 1..Len(scripts) :
    LET urls == FirstSeenUrls(actions, scripts[s].href)
        groups == scripts[s].text.scripts
    IN /\ Len(groups) = Len(urls)
       /\ \A g \in 1..Len(groups) :
            LET InGroup(a) == PageUrl(a, scripts[s].href) = urls[g]
                urlActions == SelectSeq(actions, InGroup)
                statements == SubSeq(groups[g], 3, Len(groups[g]))
            IN /\ groups[g][2] = << "  await page.goto('", urls[g], "');" >>
               /\ Len(statements) = Len(urlActions)
               /\ \A k \in 1..Len(statements) :
                    StatementOf(statements[k]) = Expected(urlActions[k])

\* a script has been generated for a list that returns to its first URL after
\* an action on a second one
C27_Witness ==
  \E s \in 1..Len(scripts) :
    /\ Len(scripts[s].text.scripts) = 2
    /\ Len(actions) = 3
    /\ PageUrl(actions[1], scripts[s].href) # PageUrl(actions[2], scripts[s].href)
    /\ PageUrl(actions[1], scripts[s].href) = PageUrl(actions[3], scripts[s].href)
    /\ actions[1].type # actions[3].type

\* C28: for every node n of the graph and every id m, m is in n.connections
\* exactly when {from: n, to: m} is in workflow.connections, and every id in
\* a node's connections is the id of a node of the graph.
C28_EdgeListMirrorsConnections ==
  \A i \in 1..Len(workflow.nodes) :
    LET node == workflow.nodes[i]
    IN /\ \A m \in 1..MaxBuilderNodes :
            (\E k \in 1..Len(node.connections) : node.connections[k] = m)
              <=> (\E c \in 1..Len(workflow.connections) :
                     workflow.connections[c] = [from |-> node.id, to |-> m])
       /\ \A k \in 1..Len(node.connections) : node.connections[k] \in BuilderNodeIds

\* C29: whenever an ExecutionLog has status 'running', the current-execution
\* pointer is set and points at a log whose status is 'running'.
C29_CurrentExecutionTracksRunning ==
  (\E c \in 1..Len(executionLogs) : executionLogs[c].status = "running") =>
    /\ currentExecution # 0
    /\ executionLogs[currentExecution].status = "running"

====
